---- MODULE Spec2Model ----
(***************************************************************************)
(* Model of the Telegram bot of docker-ytinstr (src/bot.py) and of its     *)
(* Demucs stem mixer (src/demucs_separator.py).                            *)
(*                                                                         *)
(* Spec    : the request pipeline, two updates handled concurrently by the *)
(*           dispatcher's worker threads, over a shared file system.       *)
(* SpecMix : the stem mixer of DemucsVocalSeparator.separate as a pure     *)
(*           function of the method tag and the four stems.                *)
(*                                                                         *)
(* Strings are Python strings; TLC treats a string as a sequence of        *)
(* one-character strings (Len, Head, Tail, SubSeq and \o apply).           *)
(* Waveform samples and mix weights are fixed point, in tenths.            *)
(***************************************************************************)
EXTENDS Integers, Sequences, FiniteSets, TLC

VARIABLES
    pc,                \* request -> position of its handler thread
    handler,           \* request -> the callback the dispatcher chose
    message,           \* request -> update.message.text
    method,            \* request -> process_with_method's `method` parameter
    url,               \* request -> local `url` of the handler
    temp_dir,          \* request -> local `temp_dir` (None before mkdtemp)
    title,             \* request -> local `title`
    sepMethod,         \* request -> `method` argument of process_audio/separate
    waveform,          \* request -> what torchaudio.load read (its provenance)
    instrumental_file, \* request -> value returned by process_audio
    exc,               \* request -> str(e) of the exception in flight
    replies,           \* request -> the reply_text messages sent, in order
    progress,          \* request -> the values passed to progress_callback
    trace,             \* request -> the pipeline steps attempted, in order
    outcome,           \* request -> the results of the external steps, in order
    delivered,         \* request -> the reply_audio calls that went through
    touched,           \* request -> the paths it read or wrote
    overwritten,       \* the files some request replaced after another wrote them
    dirs,              \* file system: the directories that exist
    files,             \* file system: the files, as [path, data] records
    tag,               \* mixer: the method tag
    sources,           \* mixer: the stems <<drums, bass, other, vocals>>
    instrumental,      \* mixer: the mixed waveform
    mixed              \* mixer: whether the mix has been computed

reqvars == <<pc, handler, message, method, url, temp_dir, title, sepMethod,
             waveform, instrumental_file, exc, replies, progress, trace,
             outcome, delivered, touched>>
fsvars == <<overwritten, dirs, files>>
mixvars == <<tag, sources, instrumental, mixed>>
vars == <<reqvars, fsvars, mixvars>>

---------------------------------------------------------------------------
(* Bounds and input sets                                                   *)

\* The updates in flight; each is handled by its own worker thread.
Requests == {"1", "2"}

\* Python's None, where a string is expected.
None == "<None>"

\* Number of samples of each stem in the mixer model.
NumSamples == 2

\* Sample values of a stem (any integers do; the mix is linear).
SampleValues == {-1, 2}

\* The text following a command, or a bare text message: nothing, accepted
\* URLs of both schemes, a text with a second word, and a text that starts
\* with the scheme name only.
ArgTexts == {"", "http://a", "https://b", "httpx", "http://a x"}

\* Titles the downloader can report: a plain one, one with a path separator,
\* one that climbs out of the directory it is joined to.
Titles == {"song", "AC/DC", "../song"}

---------------------------------------------------------------------------
(* String and path helpers                                                 *)

\* str.startswith(prefix)
StartsWith(s, prefix) ==
    /\ Len(s) >= Len(prefix)
    /\ \A i \in 1..Len(prefix) : SubSeq(s, i, i) = SubSeq(prefix, i, i)

\* The pieces of s between occurrences of sep, empty pieces dropped
\* (str.split() on whitespace; the components of a path).
RECURSIVE SplitAcc(_, _, _, _)
SplitAcc(s, sep, cur, acc) ==
    IF Len(s) = 0
    THEN IF Len(cur) = 0 THEN acc ELSE Append(acc, cur)
    ELSE IF Head(s) = sep
         THEN SplitAcc(Tail(s), sep, "",
                       IF Len(cur) = 0 THEN acc ELSE Append(acc, cur))
         ELSE SplitAcc(Tail(s), sep, cur \o Head(s), acc)

Split(s, sep) == SplitAcc(s, sep, "", <<>>)

\* os.path.join(a, b): an absolute b replaces a.
PathJoin(a, b) == IF StartsWith(b, "/") THEN b ELSE a \o "/" \o b

\* Path resolution of an absolute path: "." stays, ".." climbs.
RECURSIVE ResolveAcc(_, _)
ResolveAcc(comps, acc) ==
    IF comps = <<>> THEN acc
    ELSE IF Head(comps) = "." THEN ResolveAcc(Tail(comps), acc)
    ELSE IF Head(comps) = ".."
         THEN ResolveAcc(Tail(comps),
                         IF acc = <<>> THEN acc ELSE SubSeq(acc, 1, Len(acc) - 1))
         ELSE ResolveAcc(Tail(comps), Append(acc, Head(comps)))

RECURSIVE JoinComps(_)
JoinComps(comps) ==
    IF comps = <<>> THEN "" ELSE "/" \o Head(comps) \o JoinComps(Tail(comps))

\* The file a path names, as the operating system resolves it.
Normalize(path) == JoinComps(ResolveAcc(Split(path, "/"), <<>>))

\* The directory holding the file a path names.
ParentDir(path) ==
    LET c == ResolveAcc(Split(path, "/"), <<>>)
    IN  IF c = <<>> THEN "/" ELSE
        IF Len(c) = 1 THEN "/" ELSE JoinComps(SubSeq(c, 1, Len(c) - 1))

\* Whether a (resolved) path lies inside directory dir.
IsUnder(path, dir) == StartsWith(path, dir \o "/")

Exists(fs, path) == \E f \in fs : f.path = Normalize(path)

ReadFile(fs, path) == (CHOOSE f \in fs : f.path = Normalize(path)).data

WriteFile(fs, path, data) ==
    {f \in fs : f.path # Normalize(path)}
        \cup {[path |-> Normalize(path), data |-> data]}

\* shutil.rmtree(dir, ignore_errors=True)
RmtreeDirs(ds, dir) == {d \in ds : d # dir /\ ~IsUnder(d, dir)}
RmtreeFiles(fs, dir) == {f \in fs : ~IsUnder(f.path, dir)}

---------------------------------------------------------------------------
(* The stem mixer: DemucsVocalSeparator.separate, lines 89-105             *)

\* The tags the mixer model is run with: the four documented ones and two
\* that no branch of the mixer names.
Tags == {"standard", "aggressive", "gentle", "karaoke", "vocals_only", ""}

\* A stem set: <<drums, bass, other, vocals>>, each NumSamples samples long.
StemSets == [1..4 -> [1..NumSamples -> SampleValues]]

\* sources[:, :3].sum(dim=1), in tenths
SumAllExceptVocals(src) ==
    [i \in 1..Len(src[1]) |-> 10 * (src[1][i] + src[2][i] + src[3][i])]

\* The mutants of the mixer used to test the claims' formulas.
SeparateMixKaraokeFlat(meth, src) ==
    IF meth = "gentle"
    THEN [i \in 1..Len(src[1]) |-> SumAllExceptVocals(src)[i] + 1 * src[4][i]]
    ELSE SumAllExceptVocals(src)

SeparateMixElseKeepsVocals(meth, src) ==
    IF meth = "aggressive" THEN SumAllExceptVocals(src)
    ELSE IF meth = "gentle"
    THEN [i \in 1..Len(src[1]) |-> SumAllExceptVocals(src)[i] + 1 * src[4][i]]
    ELSE IF meth = "karaoke"
    THEN [i \in 1..Len(src[1]) |->
              12 * src[1][i] + 12 * src[2][i] + 8 * src[3][i]]
    ELSE IF meth = "standard" THEN SumAllExceptVocals(src)
    ELSE [i \in 1..Len(src[1]) |-> SumAllExceptVocals(src)[i] + 10 * src[4][i]]

\* The if/elif/else on `method`, in tenths (0.1 -> 1, 1.2 -> 12, 0.8 -> 8).
SeparateMix(meth, src) ==
    IF meth = "aggressive" THEN SumAllExceptVocals(src)
    ELSE IF meth = "gentle"
    THEN [i \in 1..Len(src[1]) |-> SumAllExceptVocals(src)[i] + 1 * src[4][i]]
    ELSE IF meth = "karaoke"
    THEN [i \in 1..Len(src[1]) |->
              12 * src[1][i] + 12 * src[2][i] + 8 * src[3][i]]
    ELSE SumAllExceptVocals(src)

MixIdle ==
    /\ tag = ""
    /\ sources = <<>>
    /\ instrumental = <<>>
    /\ mixed = FALSE

\* The mix of the stems apply_model returned.
MixStep ==
    /\ ~mixed
    /\ sources # <<>>
    /\ instrumental' = SeparateMix(tag, sources)
    /\ mixed' = TRUE
    /\ UNCHANGED <<tag, sources>>

---------------------------------------------------------------------------
(* The bot: messages, replies and the dispatcher (src/bot.py)              *)

Commands == {"standard", "aggressive", "gentle", "karaoke"}

\* The updates the model sends: /start, /help, every method command with no
\* argument and with a rejected one, the accepted texts after /standard and
\* one of them after each other command, and the bare text messages.
Messages ==
    {"/start", "/help"}
        \cup {"/" \o c : c \in Commands}
        \cup {"/" \o c \o " httpx" : c \in Commands}
        \cup {"/standard " \o a : a \in ArgTexts \ {""}}
        \cup {"/aggressive https://b", "/gentle http://a", "/karaoke https://b"}
        \cup (ArgTexts \ {""})

StartMsg == "Hi! I can convert YouTube songs to instrumental versions."
HelpMsg ==
    "Send me a YouTube URL, and I'll convert it to an instrumental version by removing vocals."
UsageMsg(meth) == "Please provide a YouTube URL after the /" \o meth \o " command."
InvalidUrlMsg == "Please send a valid YouTube URL."
ProcessingMsg(meth) ==
    "Processing your request using " \o meth
        \o " vocal removal. This may take a few minutes..."
PyuProcessingMsg ==
    "Processing your request using standard vocal removal. This may take a few minutes..."
DownloadedMsg(t) == "Downloaded: " \o t
RemovingMsg == "Removing vocals..."
ProgressZeroMsg == "Progress: 0%"
HereIsMsg == "Here is your instrumental version:"
ProcessingErrorMsg == "Sorry, there was an error processing the audio."
ExceptionMsg(e) == "Sorry, an error occurred: " \o e

\* The audio title of process_with_method and of process_youtube_url.
PwmAudioTitle(t, meth) == t \o " (Instrumental - " \o meth \o ")"
PyuAudioTitle(t, meth) == t \o " (Instrumental)"

\* The method process_youtube_url passes to process_audio, and a mutant
\* that passes another one.
PyuMethodGentle == "gentle"

PyuMethod == "standard"

\* CommandHandler(name, ...) matches a message whose first word is /name.
CommandOf(m) ==
    LET words == Split(m, " ")
    IN  IF StartsWith(m, "/") /\ words # <<>> THEN Tail(words[1]) ELSE None

\* context.args: the words after the command.
ContextArgs(m) == Tail(Split(m, " "))

\* url.startswith(('http://', 'https://')), and a mutant that tests the
\* scheme name only.
UrlAcceptedSchemeNameOnly(u) == StartsWith(u, "http")

UrlAccepted(u) == StartsWith(u, "http://") \/ StartsWith(u, "https://")

\* f[r] := v, and f[r] := f[r] \o s
Upd(f, r, v) == [f EXCEPT ![r] = v]
Add(f, r, s) == [f EXCEPT ![r] = @ \o s]

\* The data of a file: who wrote it and what it was made from.
DownloadData(r, u) == [by |-> r, url |-> u, method |-> "", kind |-> "download"]
InstrumentalData(r, u, meth) ==
    [by |-> r, url |-> u, method |-> meth, kind |-> "instrumental"]

\* The writes of r to path that replace a file another request wrote.
Clobbered(fs, r, path) ==
    {[path |-> f.path, of |-> f.data.by, by |-> r] :
        f \in {g \in fs : g.path = Normalize(path) /\ g.data.by # r}}

Init ==
    /\ pc = [r \in Requests |-> "idle"]
    /\ handler = [r \in Requests |-> "none"]
    /\ message = [r \in Requests |-> ""]
    /\ method = [r \in Requests |-> ""]
    /\ url = [r \in Requests |-> ""]
    /\ temp_dir = [r \in Requests |-> None]
    /\ title = [r \in Requests |-> ""]
    /\ sepMethod = [r \in Requests |-> ""]
    /\ waveform = [r \in Requests |-> ""]
    /\ instrumental_file = [r \in Requests |-> None]
    /\ exc = [r \in Requests |-> ""]
    /\ replies = [r \in Requests |-> <<>>]
    /\ progress = [r \in Requests |-> <<>>]
    /\ trace = [r \in Requests |-> <<>>]
    /\ outcome = [r \in Requests |-> <<>>]
    /\ delivered = [r \in Requests |-> <<>>]
    /\ touched = [r \in Requests |-> {}]
    /\ overwritten = {}
    /\ dirs = {"/", "/tmp"}
    /\ files = {}
    /\ MixIdle

\* start and help_command
StartCommand(r) ==
    /\ pc[r] = "idle"
    /\ \E m \in Messages :
        /\ CommandOf(m) = "start"
        /\ message' = Upd(message, r, m)
    /\ handler' = Upd(handler, r, "start")
    /\ replies' = Add(replies, r, <<StartMsg>>)
    /\ pc' = Upd(pc, r, "done")
    /\ UNCHANGED <<method, url, temp_dir, title, sepMethod, waveform,
                   instrumental_file, exc, progress, trace, outcome,
                   delivered, touched, fsvars, mixvars>>

HelpCommand(r) ==
    /\ pc[r] = "idle"
    /\ \E m \in Messages :
        /\ CommandOf(m) = "help"
        /\ message' = Upd(message, r, m)
    /\ handler' = Upd(handler, r, "help_command")
    /\ replies' = Add(replies, r, <<HelpMsg>>)
    /\ pc' = Upd(pc, r, "done")
    /\ UNCHANGED <<method, url, temp_dir, title, sepMethod, waveform,
                   instrumental_file, exc, progress, trace, outcome,
                   delivered, touched, fsvars, mixvars>>

\* process_with_method up to the try, entered through standard_command,
\* aggressive_command, gentle_command or karaoke_command.
PwmEntry(r) ==
    /\ pc[r] = "idle"
    /\ \E m \in Messages :
        /\ CommandOf(m) \in Commands
        /\ message' = Upd(message, r, m)
        /\ method' = Upd(method, r, CommandOf(m))
        /\ handler' = Upd(handler, r, "process_with_method")
        /\ IF ContextArgs(m) = <<>>
           THEN /\ replies' = Add(replies, r, <<UsageMsg(CommandOf(m))>>)
                /\ trace' = Add(trace, r, <<"validate:no argument">>)
                /\ pc' = Upd(pc, r, "done")
                /\ url' = url
           ELSE /\ url' = Upd(url, r, ContextArgs(m)[1])
                /\ IF ~UrlAccepted(ContextArgs(m)[1])
                   THEN /\ replies' = Add(replies, r, <<InvalidUrlMsg>>)
                        /\ trace' = Add(trace, r, <<"validate:rejected">>)
                        /\ pc' = Upd(pc, r, "done")
                   ELSE /\ replies' =
                             Add(replies, r, <<ProcessingMsg(CommandOf(m))>>)
                        /\ trace' = Add(trace, r, <<"validate:accepted">>)
                        /\ pc' = Upd(pc, r, "mkdtemp")
    /\ UNCHANGED <<temp_dir, title, sepMethod, waveform, instrumental_file, exc,
                   progress, outcome, delivered, touched, fsvars, mixvars>>

\* process_youtube_url up to the try: the handler of a text message that is
\* no command.
PyuEntry(r) ==
    /\ pc[r] = "idle"
    /\ \E m \in Messages :
        /\ ~StartsWith(m, "/")
        /\ message' = Upd(message, r, m)
        /\ handler' = Upd(handler, r, "process_youtube_url")
        /\ url' = Upd(url, r, m)
        /\ IF ~UrlAccepted(m)
           THEN /\ replies' = Add(replies, r, <<InvalidUrlMsg>>)
                /\ trace' = Add(trace, r, <<"validate:rejected">>)
                /\ pc' = Upd(pc, r, "done")
           ELSE /\ replies' = Add(replies, r, <<PyuProcessingMsg>>)
                /\ trace' = Add(trace, r, <<"validate:accepted">>)
                /\ pc' = Upd(pc, r, "mkdtemp")
    /\ UNCHANGED <<method, temp_dir, title, sepMethod, waveform,
                   instrumental_file, exc, progress, outcome, delivered,
                   touched, fsvars, mixvars>>

---------------------------------------------------------------------------
(* The try block of the two handlers                                       *)

\* tempfile.mkdtemp(): a new directory no other call returns.
Mkdtemp(r, h) ==
    /\ pc[r] = "mkdtemp"
    /\ handler[r] = h
    /\ temp_dir' = Upd(temp_dir, r, "/tmp/tmp_" \o r)
    /\ dirs' = dirs \cup {"/tmp/tmp_" \o r}
    /\ trace' = Add(trace, r, <<"mkdtemp">>)
    /\ pc' = Upd(pc, r, "download")
    /\ UNCHANGED <<handler, message, method, url, title, sepMethod, waveform,
                   instrumental_file, exc, replies, progress, outcome,
                   delivered, touched, overwritten, files, mixvars>>

\* The file yt-dlp leaves for output template outtmpl: '%(ext)s' becomes the
\* extension of the preferred codec, mp3.
DownloadedFile(outtmpl) ==
    IF Len(outtmpl) >= 7
          /\ SubSeq(outtmpl, Len(outtmpl) - 6, Len(outtmpl)) = "%(ext)s"
    THEN SubSeq(outtmpl, 1, Len(outtmpl) - 7) \o "mp3"
    ELSE outtmpl \o ".mp3"

\* download_youtube_audio returns a title; the handler announces it and
\* calls process_audio with the method meth.
DownloadOk(r, h, meth) ==
    /\ pc[r] = "download"
    /\ handler[r] = h
    /\ \E t \in Titles :
        LET download_path == PathJoin(temp_dir[r], "audio.%(ext)s")
            written == DownloadedFile(download_path)
        IN  /\ title' = Upd(title, r, t)
            /\ files' = WriteFile(files, written, DownloadData(r, url[r]))
            /\ overwritten' = overwritten \cup Clobbered(files, r, written)
            /\ touched' = Upd(touched, r, touched[r] \cup {Normalize(written)})
            /\ replies' = Add(replies, r,
                              <<DownloadedMsg(t), RemovingMsg, ProgressZeroMsg>>)
            /\ outcome' = Add(outcome, r, <<"download:" \o t>>)
    /\ trace' = Add(trace, r, <<"download " \o url[r]>>)
    /\ sepMethod' = Upd(sepMethod, r, meth)
    /\ pc' = Upd(pc, r, "process_audio")
    /\ UNCHANGED <<handler, message, method, url, temp_dir, waveform,
                   instrumental_file, exc, progress, delivered, dirs, mixvars>>

\* A mutant of the next definition: the exception is swallowed and the
\* handler goes on to process_audio.
DownloadRaisesSwallowed(r, h) ==
    /\ pc[r] = "download"
    /\ handler[r] = h
    /\ outcome' = Add(outcome, r, <<"download:raised">>)
    /\ trace' = Add(trace, r, <<"download " \o url[r]>>)
    /\ pc' = Upd(pc, r, "process_audio")
    /\ UNCHANGED <<handler, message, method, url, temp_dir, title, sepMethod,
                   waveform, instrumental_file, exc, replies, progress,
                   delivered, touched, fsvars, mixvars>>

\* download_youtube_audio raises: control goes to the except clause.
DownloadRaises(r, h) ==
    /\ pc[r] = "download"
    /\ handler[r] = h
    /\ exc' = Upd(exc, r, "DownloadError")
    /\ outcome' = Add(outcome, r, <<"download:raised">>)
    /\ trace' = Add(trace, r, <<"download " \o url[r]>>)
    /\ pc' = Upd(pc, r, "except")
    /\ UNCHANGED <<handler, message, method, url, temp_dir, title, sepMethod,
                   waveform, instrumental_file, replies, progress, delivered,
                   touched, fsvars, mixvars>>

\* process_audio: DemucsVocalSeparator() loads the model.  A failure to load
\* is no CalledProcessError, so it leaves process_audio as an exception.
ProcessAudioLoadsModel(r) ==
    /\ pc[r] = "process_audio"
    /\ trace' = Add(trace, r, <<"load model">>)
    /\ outcome' = Add(outcome, r, <<"model:loaded">>)
    /\ pc' = Upd(pc, r, "load")
    /\ UNCHANGED <<handler, message, method, url, temp_dir, title, sepMethod,
                   waveform, instrumental_file, exc, replies, progress,
                   delivered, touched, fsvars, mixvars>>

ProcessAudioModelRaises(r) ==
    /\ pc[r] = "process_audio"
    /\ trace' = Add(trace, r, <<"load model">>)
    /\ outcome' = Add(outcome, r, <<"model:raised">>)
    /\ exc' = Upd(exc, r, "ModelLoadError")
    /\ pc' = Upd(pc, r, "except")
    /\ UNCHANGED <<handler, message, method, url, temp_dir, title, sepMethod,
                   waveform, instrumental_file, replies, progress, delivered,
                   touched, fsvars, mixvars>>

\* separate, to the first progress report: makedirs(output_dir), load the
\* input file, report 10.  A failed load is caught in separate, which then
\* returns None.
SeparateLoad(r) ==
    /\ pc[r] = "load"
    /\ LET input_file == PathJoin(temp_dir[r], "audio.mp3")
       IN  /\ dirs' = dirs \cup {temp_dir[r]}
           /\ touched' = Upd(touched, r, touched[r] \cup {Normalize(input_file)})
           /\ IF Exists(files, input_file)
              THEN /\ waveform' = Upd(waveform, r, ReadFile(files, input_file).url)
                   /\ progress' = Add(progress, r, <<10>>)
                   /\ trace' = Add(trace, r, <<"load audio", "progress 10">>)
                   /\ pc' = Upd(pc, r, "apply")
                   /\ UNCHANGED instrumental_file
              ELSE /\ instrumental_file' = Upd(instrumental_file, r, None)
                   /\ trace' = Add(trace, r, <<"load audio">>)
                   /\ pc' = Upd(pc, r, "returned")
                   /\ UNCHANGED <<waveform, progress>>
    /\ UNCHANGED <<handler, message, method, url, temp_dir, title, sepMethod,
                   exc, replies, outcome, delivered, overwritten, files,
                   mixvars>>

\* The progress reports of separate after apply_model: 80, then, after
\* sources.cpu(), 100.  The mutant leaves the first one out.
ReportsAfterInferenceNo80 == <<100>>

ReportsAfterInference == <<80, 100>>

\* apply_model returns the stems; separate reports 80 and 100.
SeparateApply(r) ==
    /\ pc[r] = "apply"
    /\ progress' = Add(progress, r, ReportsAfterInference)
    /\ trace' = Add(trace, r, <<"apply_model", "progress 80", "progress 100">>)
    /\ outcome' = Add(outcome, r, <<"apply_model:returned">>)
    /\ pc' = Upd(pc, r, "mix")
    /\ UNCHANGED <<handler, message, method, url, temp_dir, title, sepMethod,
                   waveform, instrumental_file, exc, replies, delivered,
                   touched, fsvars, mixvars>>

\* apply_model raises (out of memory, say): separate returns None.
SeparateApplyRaises(r) ==
    /\ pc[r] = "apply"
    /\ trace' = Add(trace, r, <<"apply_model">>)
    /\ outcome' = Add(outcome, r, <<"apply_model:raised">>)
    /\ instrumental_file' = Upd(instrumental_file, r, None)
    /\ pc' = Upd(pc, r, "returned")
    /\ UNCHANGED <<handler, message, method, url, temp_dir, title, sepMethod,
                   waveform, exc, replies, progress, delivered, touched,
                   fsvars, mixvars>>

\* The path separate saves to: the title, unchanged, plus the suffix.
OutputPath(output_dir, original_title) ==
    LET base_name == IF original_title # "" THEN original_title ELSE "audio"
    IN  PathJoin(output_dir, base_name \o " INSTRUMENTAL.mp3")

\* separate from the mix to its return: mix the stems by the method, save
\* under the output path.  torchaudio.save fails when the directory of the
\* path does not exist; separate then returns None.
SeparateMixSave(r) ==
    /\ pc[r] = "mix"
    /\ LET path == OutputPath(temp_dir[r], title[r])
       IN  /\ trace' = Add(trace, r, <<"mix " \o sepMethod[r], "save">>)
           /\ IF ParentDir(path) \in dirs
              THEN /\ files' = WriteFile(files, path,
                          InstrumentalData(r, waveform[r], sepMethod[r]))
                   /\ overwritten' = overwritten \cup Clobbered(files, r, path)
                   /\ touched' = Upd(touched, r, touched[r] \cup {Normalize(path)})
                   /\ instrumental_file' = Upd(instrumental_file, r, path)
              ELSE /\ instrumental_file' = Upd(instrumental_file, r, None)
                   /\ UNCHANGED <<files, overwritten, touched>>
    /\ pc' = Upd(pc, r, "returned")
    /\ UNCHANGED <<handler, message, method, url, temp_dir, title, sepMethod,
                   waveform, exc, replies, progress, outcome, delivered, dirs,
                   mixvars>>

\* instrumental_file and os.path.exists(instrumental_file)
HasFile(r) ==
    /\ instrumental_file[r] # None
    /\ Exists(files, instrumental_file[r])

\* The file exists and reply_audio goes through.
DeliverOk(r, h, audioTitle) ==
    /\ pc[r] = "returned"
    /\ handler[r] = h
    /\ HasFile(r)
    /\ replies' = Add(replies, r, <<HereIsMsg>>)
    /\ delivered' = Add(delivered, r,
           <<[audio |-> ReadFile(files, instrumental_file[r]),
              title |-> audioTitle]>>)
    /\ touched' = Upd(touched, r,
                      touched[r] \cup {Normalize(instrumental_file[r])})
    /\ trace' = Add(trace, r, <<"deliver">>)
    /\ outcome' = Add(outcome, r, <<"reply_audio:sent">>)
    /\ pc' = Upd(pc, r, "cleanup")
    /\ UNCHANGED <<handler, message, method, url, temp_dir, title, sepMethod,
                   waveform, instrumental_file, exc, progress, fsvars, mixvars>>

\* The file exists and reply_audio raises (the upload is refused).
DeliverRaises(r, h) ==
    /\ pc[r] = "returned"
    /\ handler[r] = h
    /\ HasFile(r)
    /\ replies' = Add(replies, r, <<HereIsMsg>>)
    /\ touched' = Upd(touched, r,
                      touched[r] \cup {Normalize(instrumental_file[r])})
    /\ trace' = Add(trace, r, <<"deliver">>)
    /\ outcome' = Add(outcome, r, <<"reply_audio:raised">>)
    /\ exc' = Upd(exc, r, "SendError")
    /\ pc' = Upd(pc, r, "except")
    /\ UNCHANGED <<handler, message, method, url, temp_dir, title, sepMethod,
                   waveform, instrumental_file, progress, delivered, fsvars,
                   mixvars>>

\* No file: the else branch.
NoFile(r, h) ==
    /\ pc[r] = "returned"
    /\ handler[r] = h
    /\ ~HasFile(r)
    /\ replies' = Add(replies, r, <<ProcessingErrorMsg>>)
    /\ trace' = Add(trace, r, <<"error reply">>)
    /\ pc' = Upd(pc, r, "cleanup")
    /\ UNCHANGED <<handler, message, method, url, temp_dir, title, sepMethod,
                   waveform, instrumental_file, exc, progress, outcome,
                   delivered, touched, fsvars, mixvars>>

\* shutil.rmtree(temp_dir, ignore_errors=True), the last statement of the try.
Cleanup(r, h) ==
    /\ pc[r] = "cleanup"
    /\ handler[r] = h
    /\ dirs' = RmtreeDirs(dirs, temp_dir[r])
    /\ files' = RmtreeFiles(files, temp_dir[r])
    /\ trace' = Add(trace, r, <<"rmtree">>)
    /\ pc' = Upd(pc, r, "done")
    /\ UNCHANGED <<handler, message, method, url, temp_dir, title, sepMethod,
                   waveform, instrumental_file, exc, replies, progress, outcome,
                   delivered, touched, overwritten, mixvars>>

\* A mutant of the next definition: the exception is logged and no reply
\* is sent.
ExceptLogsOnly(r, h) ==
    /\ pc[r] = "except"
    /\ handler[r] = h
    /\ trace' = Add(trace, r, <<"error reply">>)
    /\ pc' = Upd(pc, r, "done")
    /\ UNCHANGED <<handler, message, method, url, temp_dir, title, sepMethod,
                   waveform, instrumental_file, exc, replies, progress, outcome,
                   delivered, touched, fsvars, mixvars>>

\* except Exception as e: log, reply with str(e).
Except(r, h) ==
    /\ pc[r] = "except"
    /\ handler[r] = h
    /\ replies' = Add(replies, r, <<ExceptionMsg(exc[r])>>)
    /\ trace' = Add(trace, r, <<"error reply">>)
    /\ pc' = Upd(pc, r, "done")
    /\ UNCHANGED <<handler, message, method, url, temp_dir, title, sepMethod,
                   waveform, instrumental_file, exc, progress, outcome,
                   delivered, touched, fsvars, mixvars>>

\* The steps of process_with_method
PwmMkdtemp(r) == Mkdtemp(r, "process_with_method")
PwmDownloadOk(r) == DownloadOk(r, "process_with_method", method[r])
PwmDownloadRaises(r) == DownloadRaises(r, "process_with_method")
PwmDeliverOk(r) ==
    DeliverOk(r, "process_with_method", PwmAudioTitle(title[r], method[r]))
PwmDeliverRaises(r) == DeliverRaises(r, "process_with_method")
PwmNoFile(r) == NoFile(r, "process_with_method")
PwmCleanup(r) == Cleanup(r, "process_with_method")
PwmExcept(r) == Except(r, "process_with_method")

\* The steps of process_youtube_url
PyuMkdtemp(r) == Mkdtemp(r, "process_youtube_url")
PyuDownloadOk(r) == DownloadOk(r, "process_youtube_url", PyuMethod)
PyuDownloadRaises(r) == DownloadRaises(r, "process_youtube_url")
PyuDeliverOk(r) ==
    DeliverOk(r, "process_youtube_url", PyuAudioTitle(title[r], PyuMethod))
PyuDeliverRaises(r) == DeliverRaises(r, "process_youtube_url")
PyuNoFile(r) == NoFile(r, "process_youtube_url")
PyuCleanup(r) == Cleanup(r, "process_youtube_url")
PyuExcept(r) == Except(r, "process_youtube_url")

Next ==
    \E r \in Requests :
        \/ StartCommand(r)
        \/ HelpCommand(r)
        \/ PwmEntry(r)
        \/ PwmMkdtemp(r)
        \/ PwmDownloadOk(r)
        \/ PwmDownloadRaises(r)
        \/ PwmDeliverOk(r)
        \/ PwmDeliverRaises(r)
        \/ PwmNoFile(r)
        \/ PwmCleanup(r)
        \/ PwmExcept(r)
        \/ PyuEntry(r)
        \/ PyuMkdtemp(r)
        \/ PyuDownloadOk(r)
        \/ PyuDownloadRaises(r)
        \/ PyuDeliverOk(r)
        \/ PyuDeliverRaises(r)
        \/ PyuNoFile(r)
        \/ PyuCleanup(r)
        \/ PyuExcept(r)
        \/ ProcessAudioLoadsModel(r)
        \/ ProcessAudioModelRaises(r)
        \/ SeparateLoad(r)
        \/ SeparateApply(r)
        \/ SeparateApplyRaises(r)
        \/ SeparateMixSave(r)

Spec == Init /\ [][Next]_vars

\* The mixer run on its own: any tag, any stem set.
InitMix ==
    /\ pc = [r \in Requests |-> "idle"]
    /\ handler = [r \in Requests |-> "none"]
    /\ message = [r \in Requests |-> ""]
    /\ method = [r \in Requests |-> ""]
    /\ url = [r \in Requests |-> ""]
    /\ temp_dir = [r \in Requests |-> None]
    /\ title = [r \in Requests |-> ""]
    /\ sepMethod = [r \in Requests |-> ""]
    /\ waveform = [r \in Requests |-> ""]
    /\ instrumental_file = [r \in Requests |-> None]
    /\ exc = [r \in Requests |-> ""]
    /\ replies = [r \in Requests |-> <<>>]
    /\ progress = [r \in Requests |-> <<>>]
    /\ trace = [r \in Requests |-> <<>>]
    /\ outcome = [r \in Requests |-> <<>>]
    /\ delivered = [r \in Requests |-> <<>>]
    /\ touched = [r \in Requests |-> {}]
    /\ overwritten = {}
    /\ dirs = {"/", "/tmp"}
    /\ files = {}
    /\ tag \in Tags
    /\ sources \in StemSets
    /\ instrumental = <<>>
    /\ mixed = FALSE

NextMix == MixStep /\ UNCHANGED <<reqvars, fsvars>>

SpecMix == InitMix /\ [][NextMix]_vars

---------------------------------------------------------------------------
(* Vocabulary of the claims                                                *)

Done(r) == pc[r] = "done"

Range(seq) == {seq[i] : i \in 1..Len(seq)}

\* The request went past the URL check.
PassedValidation(r) == trace[r] # <<>> /\ trace[r][1] = "validate:accepted"

\* The error responses among the replies of r.
IsErrorReply(m) == StartsWith(m, "Sorry, ")
ErrorReplies(r) == SelectSeq(replies[r], IsErrorReply)

\* The request went past the URL check, has returned, and delivered no file.
Failed(r) == PassedValidation(r) /\ Done(r) /\ delivered[r] = <<>>

\* The text the user gave as the URL: the bare message, or the first word
\* after the command.
HasArgument(r) ==
    \/ handler[r] = "process_youtube_url"
    \/ handler[r] = "process_with_method" /\ Len(Split(message[r], " ")) >= 2
GivenUrl(r) ==
    IF handler[r] = "process_youtube_url" THEN message[r]
    ELSE Split(message[r], " ")[2]
HasHttpScheme(u) ==
    \/ Len(u) >= 7 /\ SubSeq(u, 1, 7) = "http://"
    \/ Len(u) >= 8 /\ SubSeq(u, 1, 8) = "https://"

\* No step of the separator has run for r.
SeparatorNotInvoked(r) ==
    /\ progress[r] = <<>>
    /\ \A i \in 1..Len(trace[r]) :
        /\ trace[r][i] \notin {"load model", "load audio", "apply_model", "save"}
        /\ ~StartsWith(trace[r][i], "mix ")

\* Position of the first occurrence of step e in the trace of r (0: none).
FirstAt(r, e) ==
    IF e \in Range(trace[r])
    THEN CHOOSE i \in 1..Len(trace[r]) :
             trace[r][i] = e /\ \A j \in 1..(i - 1) : trace[r][j] # e
    ELSE 0

\* The policy table of the mixer, in tenths: drums, bass, other, vocals.
PolicyTable ==
    [standard |-> <<10, 10, 10, 0>>,
     aggressive |-> <<10, 10, 10, 0>>,
     gentle |-> <<10, 10, 10, 1>>,
     karaoke |-> <<12, 12, 8, 0>>]

WeightedSum(w, src) ==
    [i \in 1..NumSamples |->
        w[1] * src[1][i] + w[2] * src[2][i] + w[3] * src[3][i] + w[4] * src[4][i]]

---------------------------------------------------------------------------
(* The claims                                                              *)

\* C1: once a request that passed validation and created its temporary
\* directory has returned, the directory is gone, however the request ended.
C1_TempDirDeletedOnReturn ==
    \A r \in Requests :
        (Done(r) /\ temp_dir[r] # None) =>
            /\ temp_dir[r] \notin dirs
            /\ \A f \in files : ~IsUnder(f.path, temp_dir[r])

\* C2: for each of the four documented methods the mixed waveform is the
\* elementwise weighted sum of the stems with the weights of the policy table.
C2_MixIsPolicyWeightedSum ==
    (mixed /\ tag \in DOMAIN PolicyTable) =>
        instrumental = WeightedSum(PolicyTable[tag], sources)

C2_Witness ==
    /\ mixed
    /\ tag = "karaoke"
    /\ sources = <<<<2, -1>>, <<-1, -1>>, <<2, 2>>, <<-1, 2>>>>
    /\ instrumental = <<28, -8>>

\* C3: a tag that is none of the four documented ones is mixed with the
\* standard weights, as 'standard' is, and the mix is not refused.
C3_UnknownTagIsStandard ==
    (tag \notin DOMAIN PolicyTable) =>
        /\ ~mixed /\ sources # <<>> => ENABLED MixStep
        /\ mixed => /\ instrumental = WeightedSum(<<10, 10, 10, 0>>, sources)
                    /\ instrumental = SeparateMix("standard", sources)

C3_Witness ==
    /\ mixed
    /\ tag = "vocals_only"
    /\ sources = <<<<2, -1>>, <<-1, -1>>, <<2, 2>>, <<2, 2>>>>
    /\ instrumental = <<30, 0>>

\* C4: in both handlers a URL that starts with neither http:// nor https://
\* is answered with the one rejection message, and nothing else is done: no
\* temporary directory, no download, no separation, no file touched.
C4_BadSchemeRejected ==
    \A r \in Requests :
        (HasArgument(r) /\ ~HasHttpScheme(GivenUrl(r))) =>
            /\ Done(r)
            /\ replies[r] = <<InvalidUrlMsg>>
            /\ trace[r] = <<"validate:rejected">>
            /\ temp_dir[r] = None
            /\ touched[r] = {}
            /\ SeparatorNotInvoked(r)
            /\ delivered[r] = <<>>

C4_Witness ==
    /\ handler["1"] = "process_with_method"
    /\ message["1"] = "/karaoke httpx"
    /\ replies["1"] = <<InvalidUrlMsg>>
    /\ handler["2"] = "process_youtube_url"
    /\ message["2"] = "httpx"
    /\ replies["2"] = <<InvalidUrlMsg>>
    /\ dirs = {"/", "/tmp"}

\* C5: when the download raised, the separator is never invoked and nothing
\* is mixed, and the request ends with exactly one error response.
C5_DownloadFailure ==
    \A r \in Requests :
        ("download:raised" \in Range(outcome[r])) =>
            /\ SeparatorNotInvoked(r)
            /\ delivered[r] = <<>>
            /\ Len(ErrorReplies(r)) <= 1
            /\ Done(r) => Len(ErrorReplies(r)) = 1

C5_Witness ==
    \E r \in Requests :
        /\ Done(r)
        /\ outcome[r] = <<"download:raised">>
        /\ ErrorReplies(r) = <<ExceptionMsg("DownloadError")>>

\* C6, as stated: every failed request ends with exactly one error message,
\* the same message whatever the failure, and no step is repeated.
C6_OneGenericErrorMessage ==
    \A r1, r2 \in Requests :
        (Failed(r1) /\ Failed(r2)) =>
            /\ Len(ErrorReplies(r1)) = 1
            /\ ErrorReplies(r1) = ErrorReplies(r2)
            /\ \A i, j \in 1..Len(trace[r1]) :
                   trace[r1][i] = trace[r1][j] => i = j

\* The step of a failed request that raised into the handler's except
\* clause, and the text of its exception.
RaisedInto(r) ==
    IF "download:raised" \in Range(outcome[r]) THEN "DownloadError"
    ELSE IF "model:raised" \in Range(outcome[r]) THEN "ModelLoadError"
    ELSE IF "reply_audio:raised" \in Range(outcome[r]) THEN "SendError"
    ELSE None

\* C6, amended: every failed request ends with exactly one error message and
\* no step is repeated; the message is the fixed text when separate returned
\* no file, and the text carrying the exception when the download, the model
\* load or the upload raised.
C6_OneErrorMessagePerFailure ==
    \A r \in Requests :
        Failed(r) =>
            /\ Len(ErrorReplies(r)) = 1
            /\ ErrorReplies(r)[1] =
                   IF RaisedInto(r) = None THEN ProcessingErrorMsg
                   ELSE ExceptionMsg(RaisedInto(r))
            /\ \A i, j \in 1..Len(trace[r]) :
                   trace[r][i] = trace[r][j] => i = j

C6_Witness ==
    /\ Failed("1")
    /\ outcome["1"] = <<"download:song", "model:raised">>
    /\ ErrorReplies("1") = <<ExceptionMsg("ModelLoadError")>>
    /\ Failed("2")
    /\ outcome["2"] = <<"download:AC/DC", "model:loaded", "apply_model:returned">>
    /\ ErrorReplies("2") = <<ProcessingErrorMsg>>

\* C7: a request whose file was delivered has had its progress callback
\* called exactly three times: 10, 80, 100, in this order.
C7_ProgressOfSuccess ==
    \A r \in Requests :
        delivered[r] # <<>> => progress[r] = <<10, 80, 100>>

C7_Witness ==
    \E r \in Requests :
        /\ Done(r)
        /\ Len(delivered[r]) = 1
        /\ progress[r] = <<10, 80, 100>>

\* C8: 10 is reported before inference starts, 80 after it has finished, and
\* 100 only after the mix and the save: whenever 100 has been reported, the
\* instrumental file has been written.
C8_ProgressMilestones ==
    \A r \in Requests :
        /\ "apply_model" \in Range(trace[r]) =>
               /\ 10 \in Range(progress[r])
               /\ FirstAt(r, "progress 10") < FirstAt(r, "apply_model")
        /\ 80 \in Range(progress[r]) =>
               /\ "apply_model" \in Range(trace[r])
               /\ FirstAt(r, "apply_model") < FirstAt(r, "progress 80")
        /\ 100 \in Range(progress[r]) =>
               /\ "save" \in Range(trace[r])
               /\ instrumental_file[r] # None

\* C9, as stated: a bare text message u and '/standard u', given the same
\* results of the external steps, go through the same pipeline steps.
C9_BareTextIsStandard ==
    \A r1, r2 \in Requests :
        ( /\ handler[r1] = "process_youtube_url"
          /\ handler[r2] = "process_with_method"
          /\ message[r2] = "/standard " \o message[r1]
          /\ Done(r1) /\ Done(r2)
          /\ outcome[r1] = outcome[r2] )
        => trace[r1] = trace[r2]

\* C9, amended: the same, for a text u that holds no whitespace.
C9_BareWordIsStandard ==
    \A r1, r2 \in Requests :
        ( /\ handler[r1] = "process_youtube_url"
          /\ handler[r2] = "process_with_method"
          /\ message[r2] = "/standard " \o message[r1]
          /\ Split(message[r1], " ") = <<message[r1]>>
          /\ Done(r1) /\ Done(r2)
          /\ outcome[r1] = outcome[r2] )
        => trace[r1] = trace[r2]

C9_Witness ==
    /\ message["1"] = "http://a"
    /\ message["2"] = "/standard http://a"
    /\ Done("1") /\ Done("2")
    /\ outcome["1"] = <<"download:song", "model:loaded", "apply_model:returned",
                        "reply_audio:sent">>
    /\ outcome["2"] = outcome["1"]
    /\ trace["1"] = <<"validate:accepted", "mkdtemp", "download http://a",
                      "load model", "load audio", "progress 10", "apply_model",
                      "progress 80", "progress 100", "mix standard", "save",
                      "deliver", "rmtree">>

\* The method the user of request r asked for.
RequestedMethod(r) ==
    IF handler[r] = "process_with_method" THEN method[r] ELSE "standard"

\* C10: whatever the interleaving, a request reads and writes only files
\* inside its own temporary directory, no file of a request is overwritten by
\* another, and the file delivered is the one made from the request's own
\* URL and method.
C10_RequestsAreIsolated ==
    /\ overwritten = {}
    /\ \A r \in Requests :
        /\ \A p \in touched[r] : temp_dir[r] # None /\ IsUnder(p, temp_dir[r])
        /\ \A i \in 1..Len(delivered[r]) :
            /\ delivered[r][i].audio.by = r
            /\ delivered[r][i].audio.url = url[r]
            /\ delivered[r][i].audio.method = RequestedMethod(r)

====
